---- MODULE Spec2Model ----
(***************************************************************************)
(* A model of bishin's discovery-to-job pipeline:                          *)
(*   bishin-collect  : load_tests, ProtoModuleGraph::to_module_graph,       *)
(*                     ModuleGraph::iter_modules / iter_leaf_modules        *)
(*   bishin-parser   : parse_test_file and the winnow grammar               *)
(*   bishin-generate : generate_test_jobs                                   *)
(*                                                                         *)
(* Strings are sequences of one-character strings, so that file_stem,      *)
(* extension, join and the byte-wise ordering of Rust's String are         *)
(* computed rather than assumed.  Node indices are 1-based: petgraph's     *)
(* NodeIndex(i) is i + 1 here.                                              *)
(***************************************************************************)
EXTENDS Integers, Sequences, FiniteSets, TLC

VARIABLES
    fs,             \* the directory tree on disk: a set of [path, is_file]
    pc,             \* position of load_tests / its caller
    walk_stack,     \* WalkDir's stack of open directories
    graph_nodes,    \* load_tests: `graph` node weights (ProtoModule), by index
    graph_edges,    \* load_tests: `graph` edges <<source, target>>, in insertion order
    node_to_path,   \* load_tests: node_to_path (path_to_node is its inverse)
    root,           \* load_tests: `root`, 0 for None
    module_graph,   \* the ModuleGraph returned: [nodes, edges, order]
    result,         \* what load_tests returned: "none", "Ok", "Walk", "Empty", "Other", "panic"
    all_view,       \* the last sequence iter_modules yielded
    leaf_view,      \* the last sequence iter_leaf_modules yielded
    lines,          \* the raw lines written to the test file, in order
    contents,       \* the text of the test file parse_test_file reads
    parsed,         \* what parse_test_file returned: [status, path, tests]
    leaf_iter,      \* make_test_jobs: the leaf modules not yet loaded
    parse_log,      \* the files parse_test_file was called on, in order
    tests_by_module,\* make_test_jobs: the ModuleTests collected so far
    test_jobs,      \* generate_test_jobs: the TestJobs
    write_log,      \* the scripts written to disk, in order: [path, contents]
    jobs,           \* the Jobs generate_test_jobs returned
    gen_result,     \* what generate_test_jobs returned: "none", "Ok", "Parse", "Io", "Write"
    first_run       \* what an earlier load_tests / generate_test_jobs on the same tree gave

collect_vars == <<fs, pc, walk_stack, graph_nodes, graph_edges, node_to_path,
                  root, module_graph, result, all_view, leaf_view>>

collect_vars_but_pc == <<fs, walk_stack, graph_nodes, graph_edges, node_to_path,
                         root, module_graph, result, all_view, leaf_view>>

parser_vars == <<lines, contents, parsed>>

generate_vars == <<leaf_iter, parse_log, tests_by_module, test_jobs, write_log, jobs,
                   gen_result>>

vars == <<collect_vars, parser_vars, generate_vars, first_run>>

\* ------------------------------------------------------------------ bounds

\* The number of entries created under the root directory.
MaxEntries == 3

\* The number of lines written to a test file.
MaxLines == 6

\* ----------------------------------------------------------------- strings

\* The byte value of the characters the model's strings are made of.
Code(c) ==
    CASE c = "\n" -> 10
      [] c = "\r" -> 13
      [] c = " "  -> 32
      [] c = "-"  -> 45
      [] c = "."  -> 46
      [] c = "1"  -> 49
      [] c = ":"  -> 58
      [] c = "@"  -> 64
      [] c = "_"  -> 95
      [] c = "a"  -> 97
      [] c = "b"  -> 98
      [] c = "c"  -> 99
      [] c = "e"  -> 101
      [] c = "s"  -> 115
      [] c = "t"  -> 116
      [] c = "x"  -> 120
      [] c = "{"  -> 123
      [] c = "}"  -> 125

\* Rust's Ord for str: byte-wise lexicographic, a proper prefix first.
RECURSIVE StrLess(_, _)
StrLess(s, t) ==
    IF t = <<>> THEN FALSE
    ELSE IF s = <<>> THEN TRUE
    ELSE IF Code(Head(s)) # Code(Head(t)) THEN Code(Head(s)) < Code(Head(t))
    ELSE StrLess(Tail(s), Tail(t))

StrLeq(s, t) == s = t \/ StrLess(s, t)

\* [String]::join(sep)
RECURSIVE Join(_, _)
Join(parts, sep) ==
    IF parts = <<>> THEN <<>>
    ELSE IF Len(parts) = 1 THEN parts[1]
    ELSE parts[1] \o sep \o Join(Tail(parts), sep)

\* The position of the last "." of a name, 0 when there is none.
LastDot(name) ==
    LET dots == {i \in 1..Len(name) : name[i] = "."}
    IN IF dots = {} THEN 0 ELSE CHOOSE i \in dots : \A j \in dots : j <= i

\* Path::file_stem of a file name: the whole name when it has no "." or only a
\* leading one, otherwise the part before the last ".".
file_stem(name) ==
    IF LastDot(name) <= 1 THEN name ELSE SubSeq(name, 1, LastDot(name) - 1)

\* Path::extension of a file name: None (here <<>> with has_ext FALSE) when the
\* name has no "." or only a leading one, otherwise the part after the last ".".
has_extension(name) == LastDot(name) > 1

extension(name) == SubSeq(name, LastDot(name) + 1, Len(name))

\* The file extension of a bishin file.
FILE_EXTENSION == <<"b">>

NotParsed == [status |-> "none", path |-> <<>>, tests |-> <<>>]

NoContents == [exists |-> FALSE, text |-> <<>>]

\* No earlier run.
NoRun == [ran |-> FALSE, all_view |-> <<>>, leaf_view |-> <<>>, jobs |-> <<>>, scripts |-> {}]

\* ------------------------------------------------------------ file system

\* The names the entries of the tree are drawn from.
EntryNames == { <<"a">>, <<"a", ".", "b">>, <<"b", ".", "b">>, <<"a", "1", ".", "b">> }

NoFile == [some |-> FALSE, path |-> <<>>]
SomeFile(p) == [some |-> TRUE, path |-> p]

Parent(p) == SubSeq(p, 1, Len(p) - 1)

IsDir(p) == \E e \in fs : e.path = p /\ ~e.is_file
Exists(p) == \E e \in fs : e.path = p
ChildrenOf(p) == {e \in fs : Len(e.path) = Len(p) + 1 /\ Parent(e.path) = p}


\* The tree a test sets up before calling load_tests (create_dir / File::create).
CreateEntry(parent, name, is_file) ==
    /\ pc = "setup"
    /\ IsDir(parent)
    /\ ~Exists(Append(parent, name))
    /\ Cardinality(fs) <= MaxEntries
    /\ fs' = fs \cup {[path |-> Append(parent, name), is_file |-> is_file]}
    /\ UNCHANGED <<first_run, pc, walk_stack, graph_nodes, graph_edges, node_to_path,
                   root, module_graph, result, all_view, leaf_view, parser_vars, generate_vars>>

\* ------------------------------------------------------- petgraph helpers

\* Graph::neighbors_directed(n, Outgoing): the targets of n's outgoing edges,
\* the most recently added edge first.
RECURSIVE Neighbors(_, _)
Neighbors(edges, n) ==
    IF edges = <<>> THEN <<>>
    ELSE LET e == edges[Len(edges)]
             rest == Neighbors(SubSeq(edges, 1, Len(edges) - 1), n)
         IN IF e[1] = n THEN <<e[2]>> \o rest ELSE rest

\* Graph::edges_directed(n, Outgoing).count()
OutDegree(edges, n) == Cardinality({i \in 1..Len(edges) : edges[i][1] = n})

RECURSIVE SeqFilterNotIn(_, _)
SeqFilterNotIn(s, set) ==
    IF s = <<>> THEN <<>>
    ELSE IF Head(s) \in set THEN SeqFilterNotIn(Tail(s), set)
    ELSE <<Head(s)>> \o SeqFilterNotIn(Tail(s), set)

RECURSIVE Reverse(_)
Reverse(s) == IF s = <<>> THEN <<>> ELSE Reverse(Tail(s)) \o <<Head(s)>>

\* The inner loop of petgraph::algo::toposort: a depth-first search with an
\* explicit stack that records the nodes in the order they finish.
RECURSIVE TopoDfs(_, _, _)
TopoDfs(edges, stack, st) ==
    IF stack = <<>> THEN st
    ELSE LET nx == stack[Len(stack)] IN
         IF nx \notin st.discovered
         THEN TopoDfs(edges,
                      stack \o SeqFilterNotIn(Neighbors(edges, nx), st.discovered \cup {nx}),
                      [st EXCEPT !.discovered = @ \cup {nx}])
         ELSE TopoDfs(edges,
                      SubSeq(stack, 1, Len(stack) - 1),
                      IF nx \in st.finished THEN st
                      ELSE [st EXCEPT !.finished = @ \cup {nx},
                                      !.finish_stack = Append(@, nx)])

\* The outer loop of toposort: every node not yet discovered, highest index first.
RECURSIVE TopoOuter(_, _, _)
TopoOuter(edges, i, st) ==
    IF i = 0 THEN st
    ELSE IF i \in st.discovered THEN TopoOuter(edges, i - 1, st)
    ELSE TopoOuter(edges, i - 1, TopoDfs(edges, <<i>>, st))

\* Acyclic::try_from_graph: the topological order of the nodes (the order
\* nodes_iter yields them in).  The edges come from directory containment, a
\* parent is walked before its children, so the cycle branch is never taken.
toposort(n, edges) ==
    Reverse(TopoOuter(edges, n,
        [discovered |-> {}, finished |-> {}, finish_stack |-> <<>>]).finish_stack)

\* -------------------------------------------------------------- load_tests

PathToNode(p) ==
    IF \E i \in 1..Len(node_to_path) : node_to_path[i] = p
    THEN CHOOSE i \in 1..Len(node_to_path) : node_to_path[i] = p
    ELSE 0

Walked == {node_to_path[i] : i \in 1..Len(node_to_path)}

\* WalkDir's open directories with the finished ones popped.
RECURSIVE OpenDirs(_)
OpenDirs(stack) ==
    IF stack = <<>> THEN <<>>
    ELSE IF \E e \in ChildrenOf(stack[Len(stack)]) : e.path \notin Walked
         THEN stack
         ELSE OpenDirs(SubSeq(stack, 1, Len(stack) - 1))

\* The ProtoModule load_tests builds for an entry.
ProtoModuleOf(e, first) ==
    LET fname == IF e.path = <<>> THEN <<>> ELSE e.path[Len(e.path)] IN
    [name |-> IF first THEN <<"r", "o", "o", "t">> ELSE file_stem(fname),
     file |-> IF e.is_file /\ has_extension(fname) /\ extension(fname) = FILE_EXTENSION
              THEN SomeFile(e.path) ELSE NoFile]

StartLoad ==
    /\ pc = "setup"
    /\ pc' = "walk"
    /\ UNCHANGED <<first_run, fs, walk_stack, graph_nodes, graph_edges, node_to_path,
                   root, module_graph, result, all_view, leaf_view, parser_vars, generate_vars>>

AddNode(e) ==
    /\ graph_nodes' = Append(graph_nodes, ProtoModuleOf(e, root = 0))
    /\ node_to_path' = Append(node_to_path, e.path)
    /\ root' = IF root = 0 THEN Len(graph_nodes) + 1 ELSE root

\* One iteration of `for entry in WalkDir::new(root_path)`: the root first, then
\* depth-first, the entries of a directory in whatever order the file system
\* lists them.
WalkNext ==
    /\ pc = "walk"
    /\ IF graph_nodes = <<>>
       THEN IF ~Exists(<<>>)
            THEN /\ result' = "Walk"
                 /\ pc' = "done"
                 /\ UNCHANGED <<walk_stack, graph_nodes, node_to_path, root>>
            ELSE /\ \E e \in fs :
                       /\ e.path = <<>>
                       /\ AddNode(e)
                       /\ walk_stack' = IF e.is_file THEN <<>> ELSE <<e.path>>
                 /\ UNCHANGED <<pc, result>>
       ELSE /\ OpenDirs(walk_stack) # <<>>
            /\ LET open == OpenDirs(walk_stack) IN
               \E e \in ChildrenOf(open[Len(open)]) :
                   /\ e.path \notin Walked
                   /\ AddNode(e)
                   /\ walk_stack' = IF e.is_file THEN open ELSE Append(open, e.path)
            /\ UNCHANGED <<pc, result>>
    /\ UNCHANGED <<first_run, fs, graph_edges, module_graph, all_view, leaf_view, parser_vars, generate_vars>>

\* The edges the second loop adds: node by node, an edge from the node of the
\* parent path when that path was walked.
RECURSIVE EdgesFrom(_)
EdgesFrom(i) ==
    IF i = 0 THEN <<>>
    ELSE LET path == node_to_path[i] IN
         IF path # <<>> /\ PathToNode(Parent(path)) # 0
         THEN Append(EdgesFrom(i - 1), <<PathToNode(Parent(path)), i>>)
         ELSE EdgesFrom(i - 1)

AddEdges ==
    /\ pc = "walk"
    /\ graph_nodes # <<>>
    /\ OpenDirs(walk_stack) = <<>>
    /\ graph_edges' = EdgesFrom(Len(graph_nodes))
    /\ pc' = "prune"
    /\ UNCHANGED <<first_run, fs, walk_stack, graph_nodes, node_to_path, root, module_graph,
                   result, all_view, leaf_view, parser_vars, generate_vars>>

\* The closure of the pruning filter_map: test files pass, a directory passes
\* when it has an outgoing edge in the graph being filtered.
PruneKeeps(i) ==
    \/ graph_nodes[i].file.some
    \/ OutDegree(graph_edges, i) # 0

\* Graph::filter_map: the kept nodes are added to a new graph in index order, so
\* old index i becomes the number of kept nodes up to i.
NodeIndexMap(kept, i) == Cardinality({j \in kept : j <= i})

RECURSIVE FilterNodes(_, _, _)
FilterNodes(kept, nodes, i) ==
    IF i > Len(nodes) THEN <<>>
    ELSE (IF i \in kept THEN <<nodes[i]>> ELSE <<>>) \o FilterNodes(kept, nodes, i + 1)

\* filter_map skips an edge when either endpoint was removed.
RECURSIVE FilterEdges(_, _, _)
FilterEdges(kept, edges, i) ==
    IF i > Len(edges) THEN <<>>
    ELSE (IF edges[i][1] \in kept /\ edges[i][2] \in kept
          THEN << <<NodeIndexMap(kept, edges[i][1]), NodeIndexMap(kept, edges[i][2])>> >>
          ELSE <<>>) \o FilterEdges(kept, edges, i + 1)

\* The nodes the pruning pass keeps.
PruneKept == {i \in 1..Len(graph_nodes) : PruneKeeps(i)}

Prune ==
    /\ pc = "prune"
    /\ graph_nodes' = FilterNodes(PruneKept, graph_nodes, 1)
    /\ graph_edges' = FilterEdges(PruneKept, graph_edges, 1)
    /\ IF root = 0
       THEN pc' = "done" /\ result' = "Empty"
       ELSE pc' = "convert" /\ UNCHANGED result
    /\ UNCHANGED <<first_run, fs, walk_stack, node_to_path, root, module_graph, all_view, leaf_view,
                   parser_vars, generate_vars>>

\* ------------------------------------------ ProtoModuleGraph::to_module_graph

\* The while loop of to_module_graph: pops (path, node), caches the path of the
\* node, and pushes the children of a node without a file.  `map` is indexed by
\* node, <<>> standing for a node with no cached path.
RECURSIVE PathsDfs(_, _)
PathsDfs(stack, map) ==
    IF stack = <<>> THEN map
    ELSE LET top == stack[Len(stack)]
             rest == SubSeq(stack, 1, Len(stack) - 1)
             path == top[1]
             node == top[2]
             map2 == [map EXCEPT ![node] = path]
             children == Neighbors(graph_edges, node)
         IN IF graph_nodes[node].file.some
            THEN PathsDfs(rest, map2)
            ELSE PathsDfs(rest \o [k \in 1..Len(children) |->
                                      <<Append(path, children[k]), children[k]>>],
                          map2)

NodePaths == PathsDfs(<< <<(<<root>>), root>> >>, [i \in 1..Len(graph_nodes) |-> <<>>])

\* The node mapping without skip(1): the root's name heads every path.
ModuleOfWithRoot(map, idx) ==
    [module_path |-> [k \in 1..Len(map[idx]) |-> graph_nodes[map[idx][k]].name],
     file |-> graph_nodes[idx].file]

\* The node mapping of the second filter_map: the names along the cached path,
\* the root skipped.
ModuleOf(map, idx) ==
    [module_path |-> [k \in 1..(Len(map[idx]) - 1) |-> graph_nodes[map[idx][k + 1]].name],
     file |-> graph_nodes[idx].file]

NoGraph == [nodes |-> <<>>, edges |-> <<>>, order |-> <<>>]

\* to_module_graph as load_tests calls it.  Indexing the graph with a root that
\* is not a node of it, or the cache with a node the walk never reached, panics.
ToModuleGraph ==
    /\ pc = "convert"
    /\ pc' = "done"
    /\ IF root > Len(graph_nodes)
       THEN result' = "panic" /\ UNCHANGED module_graph
       ELSE LET map == NodePaths IN
            IF \E i \in 1..Len(graph_nodes) : map[i] = <<>>
            THEN result' = "panic" /\ UNCHANGED module_graph
            ELSE /\ result' = "Ok"
                 /\ module_graph' =
                        [nodes |-> [i \in 1..Len(graph_nodes) |-> ModuleOf(map, i)],
                         edges |-> graph_edges,
                         order |-> toposort(Len(graph_nodes), graph_edges)]
    /\ UNCHANGED <<first_run, fs, walk_stack, graph_nodes, graph_edges, node_to_path, root,
                   all_view, leaf_view, parser_vars, generate_vars>>

\* ------------------------------------------------------------ ModuleGraph

\* Module::module_path: the components joined with "::".
module_path(m) == Join(m.module_path, <<":", ":">>)

\* A sort by the name of the module instead of its path.
SortKeyName(m) == m.module_path[Len(m.module_path)]

\* The key iter_modules and iter_leaf_modules sort by.
SortKey(m) == module_path(m)

\* Vec::sort_by_key: a stable sort, equal keys keep their order.
RECURSIVE InsertByKey(_, _)
InsertByKey(sorted, m) ==
    IF sorted = <<>> THEN <<m>>
    ELSE LET last == sorted[Len(sorted)] IN
         IF StrLess(SortKey(m), SortKey(last))
         THEN Append(InsertByKey(SubSeq(sorted, 1, Len(sorted) - 1), m), last)
         ELSE Append(sorted, m)

RECURSIVE sort_by_key(_)
sort_by_key(ms) ==
    IF ms = <<>> THEN <<>>
    ELSE InsertByKey(sort_by_key(SubSeq(ms, 1, Len(ms) - 1)), ms[Len(ms)])

\* nodes_iter().skip(1).map(index): the modules in topological order, the first
\* one skipped.
NodesSkipFirst(g) ==
    [k \in 1..(Len(g.order) - 1) |-> g.nodes[g.order[k + 1]]]

iter_modules(g) == sort_by_key(NodesSkipFirst(g))

iter_leaf_modules(g) ==
    sort_by_key(SelectSeq(NodesSkipFirst(g), LAMBDA m : m.file.some))

Unset == [set |-> FALSE, seq |-> <<>>]

IterModules ==
    /\ pc = "done"
    /\ result = "Ok"
    /\ ~all_view.set
    /\ all_view' = [set |-> TRUE, seq |-> iter_modules(module_graph)]
    /\ UNCHANGED <<first_run, fs, pc, walk_stack, graph_nodes, graph_edges, node_to_path, root,
                   module_graph, result, leaf_view, parser_vars, generate_vars>>

IterLeafModules ==
    /\ pc = "done"
    /\ result = "Ok"
    /\ ~leaf_view.set
    /\ leaf_view' = [set |-> TRUE, seq |-> iter_leaf_modules(module_graph)]
    /\ UNCHANGED <<first_run, fs, pc, walk_stack, graph_nodes, graph_edges, node_to_path, root,
                   module_graph, result, all_view, parser_vars, generate_vars>>

\* ------------------------------------------------- winnow building blocks
\* A parser takes the input and the position of the next unread character and
\* returns [ok, pos, val]: whether it matched, the position after the match and
\* the value.  A failed parser leaves the position where it was (backtracking).
\* A sequence of parsers is written as a chain of operators, each taking the
\* results so far.

Failed(pos) == [ok |-> FALSE, pos |-> pos, val |-> <<>>]
Matched(pos, val) == [ok |-> TRUE, pos |-> pos, val |-> val]

\* A string literal used as a parser.
tag(s, pos, lit) ==
    IF pos + Len(lit) - 1 <= Len(s) /\ SubSeq(s, pos, pos + Len(lit) - 1) = lit
    THEN Matched(pos + Len(lit), lit)
    ELSE Failed(pos)

IsNotEol(c) == c \notin {"\r", "\n"}

IsMultispace(c) == c \in {" ", "\t", "\r", "\n"}

\* (AsChar::is_alphanum, '_')
IsNameChar(c) ==
    \/ Code(c) \in 48..57
    \/ Code(c) \in 65..90
    \/ Code(c) \in 97..122
    \/ c = "_"

\* The character classes the grammar takes runs of.
InClass(class, c) ==
    CASE class = "not_eol" -> IsNotEol(c)
      [] class = "multispace" -> IsMultispace(c)
      [] class = "name" -> IsNameChar(c)

\* The end of the longest run of characters of a class from pos on.
RECURSIVE RunEnd(_, _, _)
RunEnd(class, s, pos) ==
    IF pos <= Len(s) /\ InClass(class, s[pos]) THEN RunEnd(class, s, pos + 1) ELSE pos

\* ascii::line_ending: "\n" or "\r\n".
line_ending(s, pos) ==
    IF pos <= Len(s) /\ s[pos] = "\n" THEN Matched(pos + 1, <<"\n">>)
    ELSE IF pos + 1 <= Len(s) /\ s[pos] = "\r" /\ s[pos + 1] = "\n"
         THEN Matched(pos + 2, <<"\r", "\n">>)
         ELSE Failed(pos)

TillLineEndingAt(s, pos, e) ==
    IF e <= Len(s) /\ s[e] = "\r" /\ ~(e + 1 <= Len(s) /\ s[e + 1] = "\n")
    THEN Failed(pos)
    ELSE Matched(e, SubSeq(s, pos, e - 1))

\* ascii::till_line_ending: everything up to "\n", "\r\n" or the end of input; a
\* "\r" that no "\n" follows is an error.
till_line_ending(s, pos) == TillLineEndingAt(s, pos, RunEnd("not_eol", s, pos))

\* ascii::multispace0, as the position after the blanks.
multispace0(s, pos) == RunEnd("multispace", s, pos)

\* ---------------------------------------------------- bishin-parser grammar

TestNameTo(s, pos, e) ==
    IF e > pos THEN Matched(e, SubSeq(s, pos, e - 1)) ELSE Failed(pos)

\* take_while(1.., (AsChar::is_alphanum, '_'))
test_name(s, pos) == TestNameTo(s, pos, RunEnd("name", s, pos))

TestHeaderName(pos, n) == IF n.ok THEN n ELSE Failed(pos)

TestHeaderAfterTag(s, pos, t) ==
    IF t.ok THEN TestHeaderName(pos, test_name(s, t.pos)) ELSE Failed(pos)

\* preceded("@test ", test_name)
test_header(s, pos) ==
    TestHeaderAfterTag(s, pos, tag(s, pos, <<"@", "t", "e", "s", "t", " ">>))

\* The predicate `line` verifies: the text of the line does not start with "}".
LineVerify(l) == ~(l # <<>> /\ l[1] = "}")

LineAfterEnding(pos, t, le) ==
    IF le.ok /\ LineVerify(t.val) THEN Matched(le.pos, <<t.val, le.val>>) ELSE Failed(pos)

LineAfterText(s, pos, t) ==
    IF t.ok THEN LineAfterEnding(pos, t, line_ending(s, t.pos)) ELSE Failed(pos)

\* seq!(till_line_ending, line_ending).verify(..): the value is (line, ending).
line(s, pos) == LineAfterText(s, pos, till_line_ending(s, pos))

\* repeat(.., line): lines are taken until `line` fails.
RECURSIVE RepeatLine(_, _, _)
RepeatLineStep(s, pos, acc, l) ==
    IF l.ok THEN RepeatLine(s, l.pos, Append(acc, l.val)) ELSE Matched(pos, acc)

RepeatLine(s, pos, acc) == RepeatLineStep(s, pos, acc, line(s, pos))

\* repeat(0.., line): a body of no lines is accepted.
TestBodyAny(pos, r) == r

\* The least number of lines a body has.
TestBodyAtLeast(pos, r) == IF Len(r.val) >= 1 THEN r ELSE Failed(pos)

\* repeat(1.., line)
test_body(s, pos) == TestBodyAtLeast(pos, RepeatLine(s, pos, <<>>))

\* parser::test: the header, " {" and a line ending, the body, "}" and a line
\* ending.  The value is the BorrowedTest: the name and the (line, ending) pairs.
TestEnd(pos, name, body, end) ==
    IF end.ok THEN Matched(end.pos, [name |-> name.val, body |-> body.val]) ELSE Failed(pos)

TestClose(s, pos, name, body, close) ==
    IF close.ok THEN TestEnd(pos, name, body, line_ending(s, close.pos)) ELSE Failed(pos)

TestBody(s, pos, name, body) ==
    IF body.ok THEN TestClose(s, pos, name, body, tag(s, body.pos, <<"}">>)) ELSE Failed(pos)

TestBegin(s, pos, name, eol) ==
    IF eol.ok THEN TestBody(s, pos, name, test_body(s, eol.pos)) ELSE Failed(pos)

TestOpen(s, pos, name, open) ==
    IF open.ok THEN TestBegin(s, pos, name, line_ending(s, open.pos)) ELSE Failed(pos)

TestHeader(s, pos, name) ==
    IF name.ok THEN TestOpen(s, pos, name, tag(s, name.pos, <<" ", "{">>)) ELSE Failed(pos)

test(s, pos) == TestHeader(s, pos, test_header(s, pos))

\* repeat(0.., terminated(test, multispace0))
RECURSIVE RepeatTest(_, _, _)
RepeatTestStep(s, pos, acc, t) ==
    IF t.ok
    THEN RepeatTest(s, multispace0(s, t.pos), Append(acc, t.val))
    ELSE Matched(pos, acc)

RepeatTest(s, pos, acc) == RepeatTestStep(s, pos, acc, test(s, pos))

\* preceded(multispace0, repeat(0.., terminated(test, multispace0)))
test_file(s, pos) == RepeatTest(s, multispace0(s, pos), <<>>)

\* parse_next in place of parse: input may be left over.
ParsePrefix(s, r) == r

ParseWhole(s, r) == IF r.ok /\ r.pos > Len(s) THEN r ELSE Failed(r.pos)

\* Parser::parse: the parser must match and leave no input.
parse(s) == ParseWhole(s, test_file(s, 1))

RECURSIVE ConcatPairs(_)
ConcatPairs(pairs) ==
    IF pairs = <<>> THEN <<>>
    ELSE pairs[1][1] \o pairs[1][2] \o ConcatPairs(Tail(pairs))

RECURSIVE ConcatLinesLf(_)
ConcatLinesLf(pairs) ==
    IF pairs = <<>> THEN <<>>
    ELSE pairs[1][1] \o <<"\n">> \o ConcatLinesLf(Tail(pairs))

\* A conversion that ends every line with "\n", whatever its ending was.
to_testLf(borrowed) == [name |-> borrowed.name, body |-> ConcatLinesLf(borrowed.body)]

\* BorrowedTest::to_test: every line and its ending pushed onto the body.
to_test(borrowed) == [name |-> borrowed.name, body |-> ConcatPairs(borrowed.body)]

ParseOutcome(path, r) ==
    IF ~r.ok THEN [status |-> "Parse", path |-> path, tests |-> <<>>]
    ELSE [status |-> "Ok", path |-> <<>>,
          tests |-> [i \in 1..Len(r.val) |-> to_test(r.val[i])]]

\* parse_test_file: Io when the file cannot be read, Parse when the grammar
\* does not match the whole text, otherwise the tests.
parse_test_file(path, file) ==
    IF ~file.exists THEN [status |-> "Io", path |-> path, tests |-> <<>>]
    ELSE ParseOutcome(path, parse(file.text))

\* --------------------------------------------------------- test fixtures

\* What the test files of the tree hold, by file name.  a.b: two blocks, c and
\* b_c; b.b: two blocks, both named c; a1.b: a block closed by "}x".
FileText(name) ==
    IF name = <<"a", ".", "b">>
    THEN <<"@", "t", "e", "s", "t", " ", "c", " ", "{", "\n",
           " ", "x", "\r", "\n",
           "}", "\n",
           "\n",
           "@", "t", "e", "s", "t", " ", "b", "_", "c", " ", "{", "\n",
           "\n",
           "}", "\n">>
    ELSE IF name = <<"b", ".", "b">>
    THEN <<"@", "t", "e", "s", "t", " ", "c", " ", "{", "\r", "\n",
           "x", "\n",
           "}", "\r", "\n",
           "@", "t", "e", "s", "t", " ", "c", " ", "{", "\n",
           " ", "}", "\n",
           "}", "\n">>
    ELSE <<"@", "t", "e", "s", "t", " ", "a", " ", "{", "\n",
           "x", "\n",
           "}", "x", "\n">>

\* The directory generate_test_jobs writes the scripts to.
OutDir == << <<"o", "u", "t">> >>

\* --------------------------------------------------------- bishin-generate

\* module_test_file_name: "test_" + the components joined with "_" + ".sh".
module_test_file_name(path) ==
    <<"t", "e", "s", "t", "_">> \o Join(path, <<"_">>) \o <<".", "s", "h">>

\* The template without its empty second line.
transform_bodyNoBlank(body) ==
    <<"#", "!", "/", "u", "s", "r", "/", "b", "i", "n", "/", "e", "n", "v", " ",
      "b", "a", "s", "h", "\n">> \o body \o <<"\n">>

\* transform_body: formatdoc! of the shebang line, an empty line, the body and
\* the line feed that ends the template's last line.
transform_body(body) ==
    <<"#", "!", "/", "u", "s", "r", "/", "b", "i", "n", "/", "e", "n", "v", " ",
      "b", "a", "s", "h", "\n">> \o <<"\n">> \o body \o <<"\n">>

\* The TestJob test_jobs_for_module builds for one test of a module.
TestJobOf(out_dir, mod_path, t) ==
    LET full_path == Append(mod_path, t.name) IN
    [name |-> t.name,
     module_path |-> full_path,
     script_path |-> Append(out_dir, module_test_file_name(full_path)),
     script_contents |-> transform_body(t.body)]

test_jobs_for_module(out_dir, module_tests) ==
    [k \in 1..Len(module_tests.tests) |->
        TestJobOf(out_dir, module_tests.module_path, module_tests.tests[k])]

\* The loop over tests_by_module run from its last module to its first.
RECURSIVE AllTestJobsLastFirst(_, _)
AllTestJobsLastFirst(out_dir, by_module) ==
    IF by_module = <<>> THEN <<>>
    ELSE AllTestJobsLastFirst(out_dir, Tail(by_module))
         \o test_jobs_for_module(out_dir, by_module[1])

\* The loop of make_test_jobs over tests_by_module.
RECURSIVE AllTestJobs(_, _)
AllTestJobs(out_dir, by_module) ==
    IF by_module = <<>> THEN <<>>
    ELSE test_jobs_for_module(out_dir, by_module[1]) \o AllTestJobs(out_dir, Tail(by_module))

\* PathBuf::to_string_lossy of a path of the model.
PathString(path) == Join(path, <<"/">>)

\* A Job named by the test alone.
JobFromTestName(test_job) ==
    [name |-> test_job.name,
     args |-> << <<"b", "a", "s", "h">>, PathString(test_job.script_path) >>,
     envs |-> {}]

\* impl From<TestJob> for Job
JobFrom(test_job) ==
    [name |-> Join(test_job.module_path, <<"_">>),
     args |-> << <<"b", "a", "s", "h">>, PathString(test_job.script_path) >>,
     envs |-> {}]

\* generate_test_jobs is entered: make_test_jobs takes the leaf modules.
GenerateStart ==
    /\ pc = "done"
    /\ result = "Ok"
    /\ pc' = "parse"
    /\ leaf_iter' = iter_leaf_modules(module_graph)
    /\ UNCHANGED <<first_run, collect_vars_but_pc, parser_vars, parse_log, tests_by_module, test_jobs,
                   write_log, jobs, gen_result>>

\* load_module_tests on the next leaf module; the collect stops at the first
\* error.  Whether the file can still be read is up to the file system.
LoadModuleTestsResult(module, res) ==
    /\ parse_log' = Append(parse_log, module.file.path)
    /\ IF res.status = "Ok"
       THEN /\ tests_by_module' = Append(tests_by_module,
                   [module_path |-> module.module_path, tests |-> res.tests])
            /\ leaf_iter' = Tail(leaf_iter)
            /\ UNCHANGED <<pc, gen_result>>
       ELSE /\ gen_result' = res.status
            /\ pc' = "generated"
            /\ UNCHANGED <<tests_by_module, leaf_iter>>

\* What read_to_string finds at the path of a leaf module.
FileAt(file_path, readable) ==
    IF readable
    THEN [exists |-> TRUE, text |-> FileText(file_path[Len(file_path)])]
    ELSE NoContents

LoadModuleTests(readable) ==
    /\ pc = "parse"
    /\ leaf_iter # <<>>
    /\ LoadModuleTestsResult(Head(leaf_iter),
           parse_test_file(Head(leaf_iter).file.path,
                           FileAt(Head(leaf_iter).file.path, readable)))
    /\ UNCHANGED <<first_run, collect_vars_but_pc, parser_vars, test_jobs, write_log, jobs>>

\* The rest of make_test_jobs: the TestJobs of every module, in order.
MakeTestJobs ==
    /\ pc = "parse"
    /\ leaf_iter = <<>>
    /\ test_jobs' = AllTestJobs(OutDir, tests_by_module)
    /\ pc' = "write"
    /\ UNCHANGED <<first_run, collect_vars_but_pc, parser_vars, leaf_iter, parse_log, tests_by_module,
                   write_log, jobs, gen_result>>

\* An iteration that removes the scripts written so far when a write fails.
WriteTestScriptRollBack(writable) ==
    /\ pc = "write"
    /\ Len(write_log) < Len(test_jobs)
    /\ LET job == test_jobs[Len(write_log) + 1] IN
       IF writable
       THEN /\ write_log' = Append(write_log,
                   [path |-> job.script_path, contents |-> job.script_contents])
            /\ UNCHANGED <<pc, gen_result>>
       ELSE /\ gen_result' = "Write"
            /\ pc' = "generated"
            /\ write_log' = <<>>
    /\ UNCHANGED <<first_run, collect_vars_but_pc, parser_vars, leaf_iter, parse_log, tests_by_module,
                   test_jobs, jobs>>

\* One iteration of write_test_scripts: std::fs::write of the next script, which
\* the file system may refuse.
WriteTestScript(writable) ==
    /\ pc = "write"
    /\ Len(write_log) < Len(test_jobs)
    /\ LET job == test_jobs[Len(write_log) + 1] IN
       IF writable
       THEN /\ write_log' = Append(write_log,
                   [path |-> job.script_path, contents |-> job.script_contents])
            /\ UNCHANGED <<pc, gen_result>>
       ELSE /\ gen_result' = "Write"
            /\ pc' = "generated"
            /\ UNCHANGED write_log
    /\ UNCHANGED <<first_run, collect_vars_but_pc, parser_vars, leaf_iter, parse_log, tests_by_module,
                   test_jobs, jobs>>

\* The end of generate_test_jobs: every TestJob becomes a Job.
GenerateFinish ==
    /\ pc = "write"
    /\ Len(write_log) = Len(test_jobs)
    /\ jobs' = [k \in 1..Len(test_jobs) |-> JobFrom(test_jobs[k])]
    /\ gen_result' = "Ok"
    /\ pc' = "generated"
    /\ UNCHANGED <<first_run, collect_vars_but_pc, parser_vars, leaf_iter, parse_log, tests_by_module,
                   test_jobs, write_log>>

\* ------------------------------------------------- specification: pipeline

RootDir == [path |-> <<>>, is_file |-> FALSE]

Init ==
    /\ fs \in {{}, {RootDir}}
    /\ pc = "setup"
    /\ walk_stack = <<>>
    /\ graph_nodes = <<>>
    /\ graph_edges = <<>>
    /\ node_to_path = <<>>
    /\ root = 0
    /\ module_graph = NoGraph
    /\ result = "none"
    /\ all_view = Unset
    /\ leaf_view = Unset
    /\ lines = <<>>
    /\ contents = NoContents
    /\ parsed = NotParsed
    /\ leaf_iter = <<>>
    /\ parse_log = <<>>
    /\ tests_by_module = <<>>
    /\ test_jobs = <<>>
    /\ write_log = <<>>
    /\ jobs = <<>>
    /\ gen_result = "none"
    /\ first_run = NoRun

Next ==
    \/ \E parent \in {e.path : e \in fs}, name \in EntryNames, is_file \in BOOLEAN :
          CreateEntry(parent, name, is_file)
    \/ StartLoad
    \/ WalkNext
    \/ AddEdges
    \/ Prune
    \/ ToModuleGraph
    \/ IterModules
    \/ IterLeafModules
    \/ GenerateStart
    \/ \E readable \in BOOLEAN : LoadModuleTests(readable)
    \/ MakeTestJobs
    \/ \E writable \in BOOLEAN : WriteTestScript(writable)
    \/ GenerateFinish

Spec == Init /\ [][Next]_vars

\* ------------------------------------------------ specification: two runs

\* The script files on disk after the writes of a log: the last write to a path
\* is what the file holds.
ScriptFiles(log) ==
    {log[k] : k \in {i \in 1..Len(log) : \A j \in (i + 1)..Len(log) : log[j].path # log[i].path}}

\* load_tests and generate_test_jobs are called again on the tree as it is: what
\* the first run gave is kept, and the second run starts with fresh locals.
Rerun ==
    /\ pc = "generated"
    /\ gen_result = "Ok"
    /\ all_view.set /\ leaf_view.set
    /\ ~first_run.ran
    /\ first_run' = [ran |-> TRUE, all_view |-> all_view.seq, leaf_view |-> leaf_view.seq,
                     jobs |-> jobs, scripts |-> ScriptFiles(write_log)]
    /\ pc' = "walk"
    /\ walk_stack' = <<>>
    /\ graph_nodes' = <<>>
    /\ graph_edges' = <<>>
    /\ node_to_path' = <<>>
    /\ root' = 0
    /\ module_graph' = NoGraph
    /\ result' = "none"
    /\ all_view' = Unset
    /\ leaf_view' = Unset
    /\ leaf_iter' = <<>>
    /\ parse_log' = <<>>
    /\ tests_by_module' = <<>>
    /\ test_jobs' = <<>>
    /\ write_log' = <<>>
    /\ jobs' = <<>>
    /\ gen_result' = "none"
    /\ UNCHANGED <<fs, parser_vars>>

NextTwice ==
    \/ Next
    \/ Rerun

SpecTwice == Init /\ [][NextTwice]_vars

\* -------------------------------------------------- specification: parser

\* The lines a test file is written from.
FileLines ==
    { <<"@", "t", "e", "s", "t", " ", "a", " ", "{", "\n">>,
      <<" ", "@", "t", "e", "s", "t", " ", "b", "_", "1", " ", "{", "\r", "\n">>,
      <<" ", "x", "\r", "\n">>,
      <<"\n">>,
      <<"}", "\n">>,
      <<"}", "x", "\n">>,
      <<"@", "t", "e", "s", "t", " ", "a", "-", "b", " ", "{", "\n">>,
      <<"}">> }

\* The path of the test file.
TestFilePath == << <<"t", ".", "b">> >>

Terminated(l) == l # <<>> /\ l[Len(l)] = "\n"

\* The test writes the file (std::fs::write), here line by line.
WriteLine(l) ==
    /\ pc = "write"
    /\ Len(lines) < MaxLines
    /\ lines # <<>> => Terminated(lines[Len(lines)])
    /\ lines' = Append(lines, l)
    /\ contents' = [exists |-> TRUE, text |-> contents.text \o l]
    /\ UNCHANGED <<first_run, collect_vars_but_pc, pc, parsed, generate_vars>>

ParseTestFile ==
    /\ pc = "write"
    /\ pc' = "parsed"
    /\ parsed' = parse_test_file(TestFilePath, contents)
    /\ UNCHANGED <<first_run, collect_vars_but_pc, lines, contents, generate_vars>>

InitParse ==
    /\ fs = {}
    /\ pc = "write"
    /\ walk_stack = <<>>
    /\ graph_nodes = <<>>
    /\ graph_edges = <<>>
    /\ node_to_path = <<>>
    /\ root = 0
    /\ module_graph = NoGraph
    /\ result = "none"
    /\ all_view = Unset
    /\ leaf_view = Unset
    /\ lines = <<>>
    /\ contents = NoContents
    /\ parsed = NotParsed
    /\ leaf_iter = <<>>
    /\ parse_log = <<>>
    /\ tests_by_module = <<>>
    /\ test_jobs = <<>>
    /\ write_log = <<>>
    /\ jobs = <<>>
    /\ gen_result = "none"
    /\ first_run = NoRun

NextParse ==
    \/ \E l \in FileLines : WriteLine(l)
    \/ ParseTestFile

SpecParse == InitParse /\ [][NextParse]_vars

\* ------------------------------------------------------- claims: collect

Loaded == pc = "done" /\ result = "Ok"

IsTestFile(e) ==
    /\ e.is_file
    /\ e.path # <<>>
    /\ has_extension(e.path[Len(e.path)])
    /\ extension(e.path[Len(e.path)]) = FILE_EXTENSION

\* Tuple order on component lists: the first differing component decides, a
\* proper prefix comes first.
RECURSIVE TupleLeq(_, _)
TupleLeq(p, q) ==
    IF p = <<>> THEN TRUE
    ELSE IF q = <<>> THEN FALSE
    ELSE IF p[1] # q[1] THEN StrLess(p[1], q[1])
    ELSE TupleLeq(Tail(p), Tail(q))

Views == {v.seq : v \in {w \in {all_view, leaf_view} : w.set}}

NonRoot == (1..Len(module_graph.nodes)) \ {root}

\* C2 as stated: in the returned graph a non-root node has a file iff it has no
\* children.
C2_FileIffLeaf ==
    Loaded => \A i \in NonRoot :
        module_graph.nodes[i].file.some <=> OutDegree(module_graph.edges, i) = 0

\* C3 as stated, for a root directory that has entries: when no entry is a test
\* file, load_tests returns Empty.
C3_EmptyWithoutLeaves ==
    (/\ pc = "done"
     /\ ChildrenOf(<<>>) # {}
     /\ ~\E e \in fs : IsTestFile(e))
    => result = "Empty"

\* C6 as stated, for the graphs in which every directory kept has a child: no
\* two distinct non-root nodes of the returned graph have the same module path.
C6_UniquePaths ==
    (/\ Loaded
     /\ \A i \in NonRoot :
           module_graph.nodes[i].file.some \/ OutDegree(module_graph.edges, i) # 0)
    => \A i, j \in NonRoot :
        module_graph.nodes[i].module_path = module_graph.nodes[j].module_path => i = j

\* The module the claim expects for an entry: the stems of the entry names from
\* the root's child down to the entry, and the entry's path as file for a test file.
ExpectedModule(e) ==
    [module_path |-> [k \in 1..Len(e.path) |-> file_stem(e.path[k])],
     file |-> IF IsTestFile(e) THEN SomeFile(e.path) ELSE NoFile]

\* The entries under the root the pruning pass keeps.
Survivors == {e \in fs : e.path # <<>> /\ (IsTestFile(e) \/ ChildrenOf(e.path) # {})}

Count(v, m) == Cardinality({i \in 1..Len(v) : v[i] = m})

SameModules(v, entries) ==
    /\ Len(v) = Cardinality(entries)
    /\ \A e \in entries :
          Count(v, ExpectedModule(e)) =
              Cardinality({d \in entries : ExpectedModule(d) = ExpectedModule(e)})

\* C7: iter_modules yields exactly the surviving non-root nodes, iter_leaf_modules
\* exactly those with a file, each with the non-empty chain of names from the
\* root's child down to it.
C7_ViewsAreSurvivors ==
    /\ all_view.set =>
          /\ SameModules(all_view.seq, Survivors)
          /\ \A i \in 1..Len(all_view.seq) : all_view.seq[i].module_path # <<>>
    /\ leaf_view.set =>
          /\ SameModules(leaf_view.seq, {e \in Survivors : IsTestFile(e)})
          /\ \A i \in 1..Len(leaf_view.seq) : leaf_view.seq[i].module_path # <<>>

\* C7 witness: a directory holding a test file is in the first view and not in
\* the second, and the nested file has the two-component path.
C7_Witness ==
    /\ all_view.set /\ leaf_view.set
    /\ \E i, j \in 1..Len(all_view.seq) :
          /\ all_view.seq[i].module_path = << <<"a">> >>
          /\ ~all_view.seq[i].file.some
          /\ all_view.seq[j].module_path = << <<"a">>, <<"b">> >>
          /\ all_view.seq[j].file.some
    /\ \E k \in 1..Len(leaf_view.seq) :
          leaf_view.seq[k].module_path = << <<"a">>, <<"b">> >>
    /\ ~\E k \in 1..Len(leaf_view.seq) : ~leaf_view.seq[k].file.some

\* -------------------------------------------------------- claims: parser
\* The claims are stated against the raw lines the file was written from: a
\* block is a header line, one or more lines of which none starts with "}",
\* and a line that is exactly "}".

\* A raw line without its line ending.
LineText(l) ==
    IF ~Terminated(l) THEN l
    ELSE IF Len(l) >= 2 /\ l[Len(l) - 1] = "\r" THEN SubSeq(l, 1, Len(l) - 2)
    ELSE SubSeq(l, 1, Len(l) - 1)

IsBlankLine(l) == \A k \in 1..Len(l) : l[k] \in {" ", "\t", "\r", "\n"}

StartsWithBrace(l) == l # <<>> /\ l[1] = "}"

IsCloserLine(l) == Terminated(l) /\ LineText(l) = <<"}">>

\* A line without the blanks it starts with.
RECURSIVE StripLeft(_)
StripLeft(l) ==
    IF l # <<>> /\ l[1] \in {" ", "\t"} THEN StripLeft(Tail(l)) ELSE l

\* The name of a header line "@test <name> {", which blanks may precede; <<>>
\* when the line is no header.
HeaderName(l) ==
    LET t == StripLeft(LineText(l)) IN
    IF /\ Terminated(l)
       /\ Len(t) >= 9
       /\ SubSeq(t, 1, 6) = <<"@", "t", "e", "s", "t", " ">>
       /\ SubSeq(t, Len(t) - 1, Len(t)) = <<" ", "{">>
       /\ \A k \in 7..(Len(t) - 2) :
             t[k] \in {"a", "b", "c", "e", "s", "t", "x", "1", "_"}
    THEN SubSeq(t, 7, Len(t) - 2)
    ELSE <<>>

\* The first line from i on that starts with "}", Len(ls) + 1 when there is none.
RECURSIVE FirstBrace(_, _)
FirstBrace(ls, i) ==
    IF i > Len(ls) \/ StartsWithBrace(ls[i]) THEN i ELSE FirstBrace(ls, i + 1)

\* The blocks of a file, read off its lines: [why, blocks], where why is "ok" or
\* what is wrong with the first thing that is not a block, and a block is
\* [name, first, last] with first..last its body lines.
RECURSIVE BlocksFrom(_, _, _)
BlocksFrom(ls, i, acc) ==
    IF i > Len(ls) THEN [why |-> "ok", blocks |-> acc]
    ELSE IF IsBlankLine(ls[i]) THEN BlocksFrom(ls, i + 1, acc)
    ELSE IF HeaderName(ls[i]) = <<>> THEN [why |-> "header", blocks |-> acc]
    ELSE LET c == FirstBrace(ls, i + 1) IN
         IF c > Len(ls) THEN [why |-> "unclosed", blocks |-> acc]
         ELSE IF c = i + 1 THEN [why |-> "nobody", blocks |-> acc]
         ELSE IF ~IsCloserLine(ls[c]) THEN [why |-> "closer", blocks |-> acc]
         ELSE BlocksFrom(ls, c + 1,
                  Append(acc, [name |-> HeaderName(ls[i]), first |-> i + 1, last |-> c - 1]))

Blocks == BlocksFrom(lines, 1, <<>>)

RECURSIVE ConcatLines(_, _, _)
ConcatLines(ls, i, j) == IF i > j THEN <<>> ELSE ls[i] \o ConcatLines(ls, i + 1, j)

ParsedOk == pc = "parsed" /\ parsed.status = "Ok"

\* C8: the body of every parsed test is the text of the raw lines between the
\* line that opens its block and the line that closes it, endings included.
C8_BodyIsRawSpan ==
    ParsedOk =>
        /\ Len(parsed.tests) <= Len(Blocks.blocks)
        /\ \A i \in 1..Len(parsed.tests) :
              parsed.tests[i].body =
                  ConcatLines(lines, Blocks.blocks[i].first, Blocks.blocks[i].last)

\* C8 witness: a parsed body of two lines, one ending in "\r\n" and one in "\n".
C8_Witness ==
    /\ ParsedOk
    /\ \E i \in 1..Len(parsed.tests) :
          parsed.tests[i].body = <<" ", "x", "\r", "\n", "\n">>

\* C9: no line of a parsed body starts with "}"; a block whose first "}" line is
\* not exactly "}" and a line ending, a block without body lines, a malformed
\* header and a missing closing line each make parse_test_file return
\* Error::Parse with the path of the file, and no tests.
C9_BraceLineEndsBody ==
    /\ ParsedOk =>
          \A i \in 1..Len(parsed.tests) :
              LET b == parsed.tests[i].body IN
              \A k \in 1..Len(b) : b[k] = "}" => (k > 1 /\ b[k - 1] # "\n")
    /\ (pc = "parsed" /\ contents.exists /\ Blocks.why # "ok") =>
          /\ parsed.status = "Parse"
          /\ parsed.path = TestFilePath
          /\ parsed.tests = <<>>

\* C9 witness: a file whose second block ends in a line "}x" was parsed and
\* rejected.
C9_Witness ==
    /\ pc = "parsed"
    /\ parsed.status = "Parse"
    /\ Blocks.why = "closer"
    /\ Len(Blocks.blocks) = 1

\* C10: a parse succeeds only on blank lines and blocks, returns one test per
\* block in the order of the blocks, and returns an error, not the tests before
\* it, when something that is not a block follows.
C10_WholeInputInOrder ==
    /\ ParsedOk =>
          /\ Blocks.why = "ok"
          /\ Len(parsed.tests) = Len(Blocks.blocks)
          /\ \A i \in 1..Len(parsed.tests) : parsed.tests[i].name = Blocks.blocks[i].name
    /\ (pc = "parsed" /\ contents.exists /\ Blocks.why # "ok" /\ Blocks.blocks # <<>>) =>
          parsed.status # "Ok"

\* C10 witness: two blocks with different names were parsed in their order.
C10_Witness ==
    /\ ParsedOk
    /\ Len(parsed.tests) = 2
    /\ parsed.tests[1].name = <<"b", "_", "1">>
    /\ parsed.tests[2].name = <<"a">>


\* ------------------------------------------------------ claims: generate

\* The tests of the loaded modules, in the order their TestJobs are made.
RECURSIVE FlatTests(_)
FlatTests(by_module) ==
    IF by_module = <<>> THEN <<>>
    ELSE by_module[1].tests \o FlatTests(Tail(by_module))

ShebangLine ==
    <<"#", "!", "/", "u", "s", "r", "/", "b", "i", "n", "/", "e", "n", "v", " ",
      "b", "a", "s", "h", "\n">>

\* C4 as stated: every script written is the shebang line, one empty line and
\* the body of its test, and nothing else.
C4_ScriptIsShebangBlankBody ==
    \A k \in 1..Len(write_log) :
        write_log[k].contents = ShebangLine \o <<"\n">> \o FlatTests(tests_by_module)[k].body

\* C4 amended: every script written is the shebang line, one empty line, the
\* body of its test and one more line feed.
C4_ScriptIsShebangBlankBodyLf ==
    \A k \in 1..Len(write_log) :
        write_log[k].contents =
            ShebangLine \o <<"\n">> \o FlatTests(tests_by_module)[k].body \o <<"\n">>

\* C4 witness: generation succeeded and wrote the script of a body that has a
\* "\r\n" line.
C4_Witness ==
    /\ gen_result = "Ok"
    /\ \E k \in 1..Len(write_log) :
          FlatTests(tests_by_module)[k].body = <<" ", "x", "\r", "\n">>

\* C5 as stated: after a successful generation two different tests have
\* different script paths and different Job names, and as many files were
\* written as there are tests.
C5_OneScriptPerTest ==
    gen_result = "Ok" =>
        /\ \A i, j \in 1..Len(test_jobs) :
              i # j => /\ test_jobs[i].script_path # test_jobs[j].script_path
                       /\ jobs[i].name # jobs[j].name
        /\ Cardinality({write_log[k].path : k \in 1..Len(write_log)})
              = Len(FlatTests(tests_by_module))

\* The module path of the leaf module each test belongs to, test by test: the
\* i-th leaf module of the graph owns the tests parsed from the i-th file.
RECURSIVE Owners(_, _)
Owners(leaves, by_module) ==
    IF by_module = <<>> \/ leaves = <<>> THEN <<>>
    ELSE [k \in 1..Len(by_module[1].tests) |-> leaves[1].module_path]
         \o Owners(Tail(leaves), Tail(by_module))

TestOwners == Owners(iter_leaf_modules(module_graph), tests_by_module)

\* The path the script of a Job name is expected at, as a string.
ExpectedScript(name) ==
    PathString(OutDir) \o <<"/">> \o <<"t", "e", "s", "t", "_">> \o name \o <<".", "s", "h">>

\* C11: the Job of test T of leaf module M is named by M's components and T's
\* name joined with "_", its args are "bash" and out_dir/test_<name>.sh, which
\* is where the script of T was written, and its envs are empty.
C11_JobOfTest ==
    gen_result = "Ok" =>
        /\ Len(jobs) = Len(FlatTests(tests_by_module))
        /\ Len(TestOwners) = Len(jobs)
        /\ Len(write_log) = Len(jobs)
        /\ \A k \in 1..Len(jobs) :
              LET name == Join(Append(TestOwners[k], FlatTests(tests_by_module)[k].name),
                               <<"_">>)
              IN /\ jobs[k].name = name
                 /\ jobs[k].args = << <<"b", "a", "s", "h">>, ExpectedScript(name) >>
                 /\ PathString(write_log[k].path) = ExpectedScript(name)
                 /\ write_log[k].contents = test_jobs[k].script_contents
                 /\ jobs[k].envs = {}

\* C11 witness: the Job of test c of the nested module a::b was returned.
C11_Witness ==
    /\ gen_result = "Ok"
    /\ \E k \in 1..Len(jobs) :
          /\ TestOwners[k] = << <<"a">>, <<"b">> >>
          /\ jobs[k].name = <<"a", "_", "b", "_", "c">>

\* The names of the blocks of the test files of the tree, in the order the
\* blocks are declared in.
DeclaredNames(name) ==
    IF name = <<"a", ".", "b">> THEN << <<"c">>, <<"b", "_", "c">> >>
    ELSE IF name = <<"b", ".", "b">> THEN << <<"c">>, <<"c">> >>
    ELSE <<>>

\* The Job names expected of a sequence of leaf modules: module by module, and
\* for each module block by block.
RECURSIVE ExpectedJobNames(_)
ExpectedJobNames(leaves) ==
    IF leaves = <<>> THEN <<>>
    ELSE LET m == leaves[1]
             names == DeclaredNames(m.file.path[Len(m.file.path)])
         IN [k \in 1..Len(names) |-> Join(Append(m.module_path, names[k]), <<"_">>)]
            \o ExpectedJobNames(Tail(leaves))

\* C12: a successful generate_test_jobs returns one Job per test, by leaf module
\* in the order of iter_leaf_modules and then by declaration; the scripts are
\* written in the order of the Jobs and each leaf file is parsed exactly once.
C12_JobsInOrder ==
    gen_result = "Ok" =>
        LET leaves == iter_leaf_modules(module_graph) IN
        /\ parse_log = [i \in 1..Len(leaves) |-> leaves[i].file.path]
        /\ \A i \in 1..Len(leaves) :
              Cardinality({j \in 1..Len(parse_log) : parse_log[j] = leaves[i].file.path}) = 1
        /\ [k \in 1..Len(jobs) |-> jobs[k].name] = ExpectedJobNames(leaves)
        /\ [k \in 1..Len(write_log) |-> PathString(write_log[k].path)]
              = [k \in 1..Len(jobs) |-> jobs[k].args[2]]

\* C12 witness: two leaf files of two blocks each gave four Jobs.
C12_Witness ==
    /\ gen_result = "Ok"
    /\ Len(parse_log) = 2
    /\ [k \in 1..Len(jobs) |-> jobs[k].name] =
          << <<"a", "_", "c">>, <<"a", "_", "b", "_", "c">>,
             <<"b", "_", "c">>, <<"b", "_", "c">> >>

IsPrefix(s, t) == Len(s) <= Len(t) /\ SubSeq(t, 1, Len(s)) = s

\* The test files of the tree that hold a block no line "}" closes.
Malformed(path) == DeclaredNames(path[Len(path)]) = <<>>

\* What holds of every state of a generation: an error comes with no Jobs; a
\* parse error comes from the last file parsed, before any script is written; a
\* write error leaves the scripts written before it; and success means that no
\* file parsed was malformed and every script was written.
AllOrNothingState ==
    /\ gen_result \in {"none", "Ok", "Parse", "Io", "Write"}
    /\ gen_result \in {"Parse", "Io", "Write"} => jobs = <<>>
    /\ gen_result \in {"Parse", "Io"} =>
          /\ write_log = <<>>
          /\ Len(parse_log) = Len(tests_by_module) + 1
    /\ gen_result = "Parse" => Malformed(parse_log[Len(parse_log)])
    /\ \A j \in 1..Len(parse_log) :
          Malformed(parse_log[j]) => j = Len(parse_log) /\ gen_result \in {"Parse", "Io"}
    /\ gen_result = "Write" =>
          /\ Len(write_log) < Len(test_jobs)
          /\ \A k \in 1..Len(write_log) :
                write_log[k] = [path |-> test_jobs[k].script_path,
                                contents |-> test_jobs[k].script_contents]
    /\ gen_result = "Ok" => Len(write_log) = Len(test_jobs) /\ Len(jobs) = Len(test_jobs)

\* What holds of every step: no script written is removed, and after an error
\* nothing more is parsed, written or returned.
AllOrNothingStep ==
    /\ IsPrefix(write_log, write_log')
    /\ gen_result \in {"Parse", "Io", "Write"} =>
          /\ parse_log' = parse_log
          /\ write_log' = write_log
          /\ jobs' = jobs
          /\ gen_result' = gen_result

\* C13: when a parse or a write fails, generate_test_jobs returns the error and
\* no Jobs, parses and writes nothing after the failing step, and leaves the
\* scripts it wrote before that step.
C13_AllOrNothing == []AllOrNothingState /\ [][AllOrNothingStep]_vars

\* C13 witness: a write failed after a script had been written.
C13_Witness ==
    /\ gen_result = "Write"
    /\ Len(write_log) >= 1
    /\ Len(test_jobs) > Len(write_log)

\* ------------------------------------------------------ claims: two runs

\* C14 as stated, for the trees of which every directory kept has a child: a
\* second run on the unchanged tree yields the same two views, the same Job
\* list and the same script files as the first, however either walk enumerated
\* the directories.
C14_SameOutcomeTwice ==
    (/\ first_run.ran
     /\ pc = "generated" /\ gen_result = "Ok"
     /\ all_view.set /\ leaf_view.set
     /\ \A i \in NonRoot :
           module_graph.nodes[i].file.some \/ OutDegree(module_graph.edges, i) # 0)
    => /\ all_view.seq = first_run.all_view
       /\ leaf_view.seq = first_run.leaf_view
       /\ jobs = first_run.jobs
       /\ ScriptFiles(write_log) = first_run.scripts

\* ------------------------------------------------------- claims: pruning

\* C15 as stated: after the pruning pass the root is still a node of the graph
\* at the index load_tests stored, every node left has a path from it, and
\* load_tests ends by returning Ok or an error.
C15_RootSurvivesPruning ==
    /\ pc = "convert" =>
          /\ root \in 1..Len(graph_nodes)
          /\ graph_nodes[root].name = <<"r", "o", "o", "t">>
          /\ \A i \in 1..Len(graph_nodes) : NodePaths[i] # <<>>
    /\ pc = "done" => result \in {"Ok", "Walk", "Empty", "Other"}

====
